---- MODULE Spec2Model ----
(***************************************************************************)
(* Model of the market-data API:                                           *)
(*   - src/backend/main.py : the Black-Scholes pricer (_black_scholes) and *)
(*     its endpoint POST /api/tools/black_scholes;                         *)
(*   - src/main.py : the database-backed IPO listing (list_ipos,           *)
(*     _ensure_seed_data, _serialize, _fallback_list).                     *)
(*                                                                         *)
(* Python floats are modelled as fixed-point numbers: the integer x stands *)
(* for the real x / Scale.  Every arithmetic operator rounds to the        *)
(* nearest representable value, symmetrically in the sign, the way IEEE    *)
(* arithmetic does.                                                        *)
(***************************************************************************)
EXTENDS Integers, Sequences, FiniteSets, TLC

\* Resolution of the fixed-point model of `float`.
Scale == 10000

Abs(x) == IF x < 0 THEN -x ELSE x

Sgn(x) == IF x < 0 THEN -1 ELSE 1

\* a * b on non-negative operands, split so that no partial product leaves
\* the 32-bit range of TLC's integers.
MulPos(a, b) ==
  LET ah == a \div Scale
      al == a % Scale
      bh == b \div Scale
      bl == b % Scale
  IN  ah * bh * Scale + ah * bl + al * bh + ((al * bl + (Scale \div 2)) \div Scale)

\* float `*`
Mul(a, b) == Sgn(a) * Sgn(b) * MulPos(Abs(a), Abs(b))

\* The fractional digits of r / b (0 <= r < b), n digits left to produce.
RECURSIVE FracDigits(_, _, _, _)
FracDigits(r, b, n, acc) ==
  IF n = 0
    THEN (IF 2 * r >= b THEN acc + 1 ELSE acc)
    ELSE FracDigits((r * 10) % b, b, n - 1, acc * 10 + ((r * 10) \div b))

\* a / b on a >= 0, b > 0, by long division.
DivPos(a, b) == (a \div b) * Scale + FracDigits(a % b, b, 4, 0)

\* float `/` (the divisor is non-zero wherever the model divides)
Div(a, b) == Sgn(a) * Sgn(b) * DivPos(Abs(a), Abs(b))

\* Largest y in lo..hi with y * y <= n.
RECURSIVE ISqrt(_, _, _)
ISqrt(n, lo, hi) ==
  IF lo >= hi
    THEN lo
    ELSE LET mid == (lo + hi + 1) \div 2
         IN  IF mid * mid <= n THEN ISqrt(n, mid, hi) ELSE ISqrt(n, lo, mid - 1)

\* math.sqrt on x >= 0
Sqrt(x) ==
  LET n == x * Scale
      y == ISqrt(n, 0, 46340)
  IN  IF n - y * y > y THEN y + 1 ELSE y

\* Sum of the Taylor series of exp from term `term` (= x^k / k!) on.
RECURSIVE ExpSeries(_, _, _)
ExpSeries(x, term, k) ==
  IF term = 0 \/ k > 30
    THEN 0
    ELSE term + ExpSeries(x, Div(Mul(term, x), k * Scale), k + 1)

\* exp on -1 <= x <= 1
ExpSmall(x) == ExpSeries(x, Scale, 1)

\* exp on x <= 0: whole units by e^-1, the rest by the series; below -12 the
\* result is less than half a resolution step and underflows to 0.0
\* (math.exp does not raise on underflow).
RECURSIVE ExpNeg(_)
ExpNeg(x) ==
  IF x < -(12 * Scale)
    THEN 0
    ELSE IF x < -Scale
           THEN Mul(3679, ExpNeg(x + Scale))
           ELSE ExpSmall(x)

\* exp on x > 0 (small arguments only: the result must stay representable).
RECURSIVE ExpPosArg(_)
ExpPosArg(x) ==
  IF x > Scale THEN Mul(27183, ExpPosArg(x - Scale)) ELSE ExpSmall(x)

\* math.exp where it returns
Exp(x) == IF x <= 0 THEN ExpNeg(x) ELSE ExpPosArg(x)

\* math.exp raises OverflowError ("math range error") when the result exceeds
\* the largest double, i.e. for x > ln(DBL_MAX) = 709.78...
ExpRaises(x) == x > 709 * Scale + 7827

\* atanh series z + z^3/3 + z^5/5 + ... from the term z^k on.
RECURSIVE AtanhSeries(_, _, _)
AtanhSeries(z2, pow, k) ==
  IF pow = 0 \/ k > 41
    THEN 0
    ELSE Div(pow, k * Scale) + AtanhSeries(z2, Mul(pow, z2), k + 2)

\* math.log on x > 0: range reduction by powers of two, then
\* ln x = 2 atanh((x - 1) / (x + 1)).
RECURSIVE Ln(_)
Ln(x) ==
  IF x > 2 * Scale
    THEN 6931 + Ln(Div(x, 2 * Scale))
    ELSE IF 2 * x < Scale
           THEN Ln(x * 2) - 6931
           ELSE LET z == Div(x - Scale, x + Scale)
                IN  2 * AtanhSeries(Mul(z, z), z, 1)

\* math.erf on x >= 0 (Abramowitz & Stegun 7.1.26).
ErfPos(x) ==
  IF x > 4 * Scale
    THEN Scale
    ELSE LET t == Div(Scale, Scale + Mul(3276, x))
             poly == Mul(t, 2548 + Mul(t, -2845 + Mul(t, 14214
                       + Mul(t, -14532 + Mul(t, 10614)))))
         IN  Scale - Mul(poly, Exp(-Mul(x, x)))

\* math.erf: odd in x
Erf(x) == IF x < 0 THEN -ErfPos(-x) ELSE ErfPos(x)

\* norm = NormalDist(): the module's shared standard normal distribution
\* (mu = 0.0, sigma = 1.0), which no code assigns to.
norm == [mu |-> 0, sigma |-> Scale]

\* norm.cdf(x) = 0.5 * (1.0 + erf((x - mu) / (sigma * sqrt(2))))
NormCdf(x) ==
  Mul(Scale \div 2, Scale + Erf(Div(x - norm.mu, Mul(norm.sigma, 14142))))

\* norm.pdf(x) = exp(diff * diff / (-2.0 * variance)) / sqrt(tau * variance)
NormPdf(x) ==
  LET variance == Mul(norm.sigma, norm.sigma)
      diff     == x - norm.mu
  IN  Div(Exp(Div(Mul(diff, diff), Mul(-2 * Scale, variance))),
          Sqrt(Mul(62832, variance)))

\* ------------------------------------------------------------------------
\* src/backend/main.py: the option pricer
\* ------------------------------------------------------------------------

\* Divisor of rho and vega (per percentage point).
PerCent == 100

\* Divisor of theta (per calendar day).
DaysPerYear == 365

\* return {k: 0.0 for k in ["price","delta","gamma","vega","theta","rho"]}
ZeroResult ==
  [status |-> "returned", price |-> 0, delta |-> 0, gamma |-> 0,
   vega |-> 0, theta |-> 0, rho |-> 0]

\* An exception leaving _black_scholes.
Raised(exc) == [status |-> exc]

\* Mutant of Degenerate: the check of the strike is missing.
DegenerateNoStrike(S, K, T, sigma) == T <= 0 \/ sigma <= 0 \/ S <= 0

\* if T <= 0 or sigma <= 0 or S <= 0 or K <= 0
Degenerate(S, K, T, sigma) == T <= 0 \/ sigma <= 0 \/ S <= 0 \/ K <= 0

\* d1 = (log(S / K) + (r + 0.5 * sigma ** 2) * T) / (sigma * sqrt(T))
D1(S, K, T, r, sigma) ==
  Div(Ln(Div(S, K)) + Mul(r + Mul(Scale \div 2, Mul(sigma, sigma)), T),
      Mul(sigma, Sqrt(T)))

\* d2 = d1 - sigma * sqrt(T)
D2(d1, T, sigma) == d1 - Mul(sigma, Sqrt(T))

\* exp(-r * T), evaluated in both branches
Discount(T, r) == Exp(Mul(-r, T))

\* -(S * norm.pdf(d1) * sigma) / (2 * sqrt(T)), the first term of theta
ThetaDecay(S, T, sigma, d1) ==
  Div(-Mul(Mul(S, NormPdf(d1)), sigma), Mul(2 * Scale, Sqrt(T)))

\* The is_call branch: price, delta, rho, theta.
CallBranch(S, K, T, r, sigma, d1, d2) ==
  [price |-> Mul(S, NormCdf(d1)) - Mul(Mul(K, Discount(T, r)), NormCdf(d2)),
   delta |-> NormCdf(d1),
   rho   |-> Div(Mul(Mul(Mul(K, T), Discount(T, r)), NormCdf(d2)),
                 PerCent * Scale),
   theta |-> Div(ThetaDecay(S, T, sigma, d1)
                   - Mul(Mul(Mul(r, K), Discount(T, r)), NormCdf(d2)),
                 DaysPerYear * Scale)]

\* The else branch: price, delta, rho, theta.
PutBranch(S, K, T, r, sigma, d1, d2) ==
  [price |-> Mul(Mul(K, Discount(T, r)), NormCdf(-d2)) - Mul(S, NormCdf(-d1)),
   delta |-> -NormCdf(-d1),
   rho   |-> Div(Mul(Mul(Mul(-K, T), Discount(T, r)), NormCdf(-d2)),
                 PerCent * Scale),
   theta |-> Div(ThetaDecay(S, T, sigma, d1)
                   + Mul(Mul(Mul(r, K), Discount(T, r)), NormCdf(-d2)),
                 DaysPerYear * Scale)]

\* gamma = norm.pdf(d1) / (S * sigma * sqrt(T))
Gamma(S, T, sigma, d1) ==
  Div(NormPdf(d1), Mul(Mul(S, sigma), Sqrt(T)))

\* vega = S * norm.pdf(d1) * sqrt(T) / 100.0
Vega(S, T, sigma, d1) ==
  Div(Mul(Mul(S, NormPdf(d1)), Sqrt(T)), PerCent * Scale)

\* The branch taken on is_call.
Branch(S, K, T, r, sigma, d1, d2, is_call) ==
  IF is_call THEN CallBranch(S, K, T, r, sigma, d1, d2)
             ELSE PutBranch(S, K, T, r, sigma, d1, d2)

\* The exception line 161 (d1) raises, in the order Python evaluates it, or
\* "none":
\*   S / K                      ZeroDivisionError when K is 0.0
\*   log(S / K)                 ValueError when S / K <= 0
\*   sqrt(T)                    ValueError when T < 0
\*   ... / (sigma * sqrt(T))    ZeroDivisionError when the product is 0.0
D1Raises(S, K, T, sigma) ==
  IF K = 0 THEN "ZeroDivisionError"
  ELSE IF Div(S, K) <= 0 THEN "ValueError"
  ELSE IF T < 0 THEN "ValueError"
  ELSE IF Mul(sigma, Sqrt(T)) = 0 THEN "ZeroDivisionError"
  ELSE "none"

\* The exception either branch (lines 164-172) raises, or "none": the first
\* statement of each evaluates exp(-r * T).
BranchRaises(T, r) ==
  IF ExpRaises(Mul(-r, T)) THEN "OverflowError" ELSE "none"

\* The exception line 173 (gamma) raises, or "none": the divisor
\* S * sigma * sqrt(T) may be 0.0.
GammaRaises(S, T, sigma) ==
  IF Mul(Mul(S, sigma), Sqrt(T)) = 0 THEN "ZeroDivisionError" ELSE "none"

\* The first exception the statements after the degenerate-input check
\* raise, or "none".
ExceptionOf(S, K, T, r, sigma) ==
  IF D1Raises(S, K, T, sigma) # "none" THEN D1Raises(S, K, T, sigma)
  ELSE IF BranchRaises(T, r) # "none" THEN BranchRaises(T, r)
  ELSE GammaRaises(S, T, sigma)

\* Mutant of _black_scholes: gamma is computed inside the branches, the put
\* branch taking it at d2.
BlackScholesGammaInBranch(S, K, T, r, sigma, is_call) ==
  IF Degenerate(S, K, T, sigma)
    THEN ZeroResult
    ELSE IF ExceptionOf(S, K, T, r, sigma) # "none"
           THEN Raised(ExceptionOf(S, K, T, r, sigma))
           ELSE LET d1 == D1(S, K, T, r, sigma)
                    d2 == D2(d1, T, sigma)
                    b  == Branch(S, K, T, r, sigma, d1, d2, is_call)
                IN  [status |-> "returned",
                     price  |-> b.price,
                     delta  |-> b.delta,
                     gamma  |-> Gamma(S, T, sigma, IF is_call THEN d1 ELSE d2),
                     vega   |-> Vega(S, T, sigma, d1),
                     theta  |-> b.theta,
                     rho    |-> b.rho]

\* def _black_scholes(S, K, T, r, sigma, is_call)
_black_scholes(S, K, T, r, sigma, is_call) ==
  IF Degenerate(S, K, T, sigma)
    THEN ZeroResult
    ELSE IF ExceptionOf(S, K, T, r, sigma) # "none"
           THEN Raised(ExceptionOf(S, K, T, r, sigma))
           ELSE LET d1 == D1(S, K, T, r, sigma)
                    d2 == D2(d1, T, sigma)
                    b  == Branch(S, K, T, r, sigma, d1, d2, is_call)
                IN  [status |-> "returned",
                     price  |-> b.price,
                     delta  |-> b.delta,
                     gamma  |-> Gamma(S, T, sigma, d1),
                     vega   |-> Vega(S, T, sigma, d1),
                     theta  |-> b.theta,
                     rho    |-> b.rho]

\* str.lower() on one character of the alphabet the requests use.
LowerChar(ch) ==
  CASE ch = "C" -> "c"
    [] ch = "A" -> "a"
    [] ch = "L" -> "l"
    [] ch = "P" -> "p"
    [] ch = "U" -> "u"
    [] ch = "T" -> "t"
    [] OTHER    -> ch

\* str.lower(): a string is the sequence of its characters.
Lower(str) == [i \in 1..Len(str) |-> LowerChar(str[i])]

\* Mutant of IsCall: the comparison without lower().
IsCallCaseSensitive(type) == type = <<"c", "a", "l", "l">>

\* is_call = req.type.lower() == 'call'
IsCall(type) == Lower(type) = <<"c", "a", "l", "l">>

\* def black_scholes(req): the body of the response, or the exception that
\* leaves the handler.
black_scholes(req) ==
  _black_scholes(req.S, req.K, req.T, req.r, req.sigma, IsCall(req.type))

\* ------------------------------------------------------------------------
\* The pricer under test: the numeric inputs are drawn once, then the pricer
\* is called directly with either flag and through the endpoint with any
\* type string.
\* ------------------------------------------------------------------------

\* Spot prices: zero and two valid ones.
SVals == {0, 90 * Scale, 100 * Scale}

\* Strikes: a negative one and two valid ones.
KVals == {-(100 * Scale), 100 * Scale, 110 * Scale}

\* Times to expiry in years: zero, a half, one.
TVals == {0, Scale \div 2, Scale}

\* Rates: a rate whose discount factor exp(-r * T) overflows a double for
\* every T of TVals above zero, a negative one, zero and a positive one.
RVals == {-(1420 * Scale), -(Scale \div 50), 0, Scale \div 20}

\* Volatilities: negative, zero and two valid ones.
SigmaVals == {-(Scale \div 5), 0, Scale \div 5, (2 * Scale) \div 5}

\* Type strings sent to the endpoint.
TypeStrings ==
  { <<"c", "a", "l", "l">>, <<"C", "A", "L", "L">>, <<"C", "a", "l", "l">>,
    <<"p", "u", "t">>, <<"P", "U", "T">>, <<"c", "a", "l">>, <<>> }

\* No call made yet.
Pending == [status |-> "pending"]

VARIABLES
  args,   \* the numeric inputs S, K, T, r, sigma of the calls
  out,    \* out[is_call]: what _black_scholes gave for the flag
  resp,   \* the last response of the endpoint
  pc,     \* pc[t]: the line thread t's call of _black_scholes is at
  frame,  \* frame[t]: the arguments and locals of thread t's call
  ret,    \* ret[t]: what thread t's call gave
  db,     \* src/main.py: TRUE when a database is configured (db is not None)
  ipo,    \* the documents of the database's "ipo" collection, in order
  seeded, \* how the last run of _ensure_seed_data ended
  fetched,\* how the last get_documents("ipo") of list_ipos ended
  listed, \* the last response of GET /api/ipos
  got     \* the last request of GET /api/ipos/{symbol} and its response

pricerVars == <<args, out, resp>>

threadVars == <<pc, frame, ret>>

dbVars == <<db, ipo, seeded, fetched, listed, got>>

vars ==
  <<args, out, resp, pc, frame, ret, db, ipo, seeded, fetched, listed, got>>

\* No request made of the IPO API, and no database configured.
DbIdle ==
  /\ db = FALSE
  /\ ipo = <<>>
  /\ seeded = "not run"
  /\ fetched = "not run"
  /\ listed = [status |-> "none"]
  /\ got = [status |-> "none"]

\* The request handlers run in the server's thread pool.
Threads == {1, 2}

\* The arguments and locals of a call before any assignment.
EmptyFrame ==
  [S |-> 0, K |-> 0, T |-> 0, r |-> 0, sigma |-> 0, is_call |-> FALSE,
   d1 |-> 0, d2 |-> 0, price |-> 0, delta |-> 0, rho |-> 0, theta |-> 0,
   gamma |-> 0, vega |-> 0]

\* No thread is in a call.
ThreadsIdle ==
  /\ pc = [t \in Threads |-> "idle"]
  /\ frame = [t \in Threads |-> EmptyFrame]
  /\ ret = [t \in Threads |-> Pending]

PricerInit ==
  /\ args \in [S : SVals, K : KVals, T : TVals, r : RVals, sigma : SigmaVals]
  /\ out = [c \in BOOLEAN |-> Pending]
  /\ resp = [served |-> FALSE]
  /\ ThreadsIdle
  /\ DbIdle

\* A direct call _black_scholes(S, K, T, r, sigma, is_call), once per flag.
Price(is_call) ==
  /\ out[is_call] = Pending
  /\ out' = [out EXCEPT ![is_call] =
               _black_scholes(args.S, args.K, args.T, args.r, args.sigma, is_call)]
  /\ UNCHANGED <<args, resp, threadVars, dbVars>>

\* POST /api/tools/black_scholes with the given type string; the client has
\* one request outstanding at a time.
Post(type) ==
  /\ ~resp.served
  /\ resp' = [served |-> TRUE, type |-> type,
              body |-> black_scholes([S |-> args.S, K |-> args.K, T |-> args.T,
                                      r |-> args.r, sigma |-> args.sigma,
                                      type |-> type])]
  /\ UNCHANGED <<args, out, threadVars, dbVars>>

\* The client takes the response.
Deliver ==
  /\ resp.served
  /\ resp' = [served |-> FALSE]
  /\ UNCHANGED <<args, out, threadVars, dbVars>>

Init == PricerInit

Next ==
  \/ \E is_call \in BOOLEAN : Price(is_call)
  \/ \E type \in TypeStrings : Post(type)
  \/ Deliver

Spec == Init /\ [][Next]_vars

\* ------------------------------------------------------------------------
\* Concurrent calls: each thread runs _black_scholes line by line, and the
\* threads interleave between lines.
\* ------------------------------------------------------------------------

\* The arguments the concurrent callers pass: two valid inputs, one with
\* T = 0, one whose discount factor overflows.
ThreadArgs ==
  { [S |-> 100 * Scale, K |-> 100 * Scale, T |-> Scale,
     r |-> Scale \div 20, sigma |-> Scale \div 5],
    [S |-> 90 * Scale, K |-> 110 * Scale, T |-> Scale \div 2,
     r |-> -(Scale \div 50), sigma |-> (2 * Scale) \div 5],
    [S |-> 100 * Scale, K |-> 100 * Scale, T |-> 0,
     r |-> Scale \div 20, sigma |-> Scale \div 5],
    [S |-> 100 * Scale, K |-> 100 * Scale, T |-> Scale,
     r |-> -(1420 * Scale), sigma |-> Scale \div 5] }

\* Mutant of Locals: the arguments and locals live in one namespace shared
\* by all calls (module globals).
LocalsShared(fr, t) == fr[1]

\* The namespace thread t's call reads its arguments and locals from: the
\* frame of that call.
Locals(fr, t) == fr[t]

\* The call leaves with result v (a returned dict or an exception).
Leave(t, v) ==
  /\ ret' = [ret EXCEPT ![t] = v]
  /\ pc' = [pc EXCEPT ![t] = "done"]

\* Thread t enters _black_scholes(S, K, T, r, sigma, is_call).
Enter(t, a, is_call) ==
  /\ pc[t] = "idle"
  /\ frame' = [frame EXCEPT ![t] =
                 [EmptyFrame EXCEPT !.S = a.S, !.K = a.K, !.T = a.T, !.r = a.r,
                                    !.sigma = a.sigma, !.is_call = is_call]]
  /\ pc' = [pc EXCEPT ![t] = "L159"]
  /\ ret' = [ret EXCEPT ![t] = Pending]
  /\ UNCHANGED <<pricerVars, dbVars>>

\* Lines 159-160: the degenerate-input check.
Line159(t) ==
  /\ pc[t] = "L159"
  /\ LET f == Locals(frame, t)
     IN  IF Degenerate(f.S, f.K, f.T, f.sigma)
           THEN Leave(t, ZeroResult)
           ELSE pc' = [pc EXCEPT ![t] = "L161"] /\ UNCHANGED ret
  /\ UNCHANGED <<frame, pricerVars, dbVars>>

\* Line 161: d1.
Line161(t) ==
  /\ pc[t] = "L161"
  /\ LET f == Locals(frame, t)
     IN  IF D1Raises(f.S, f.K, f.T, f.sigma) # "none"
           THEN Leave(t, Raised(D1Raises(f.S, f.K, f.T, f.sigma)))
                  /\ UNCHANGED frame
           ELSE /\ frame' = [frame EXCEPT ![t].d1 = D1(f.S, f.K, f.T, f.r, f.sigma)]
                /\ pc' = [pc EXCEPT ![t] = "L162"]
                /\ UNCHANGED ret
  /\ UNCHANGED <<pricerVars, dbVars>>

\* Line 162: d2.
Line162(t) ==
  /\ pc[t] = "L162"
  /\ LET f == Locals(frame, t)
     IN  frame' = [frame EXCEPT ![t].d2 = D2(f.d1, f.T, f.sigma)]
  /\ pc' = [pc EXCEPT ![t] = "L163"]
  /\ UNCHANGED <<ret, pricerVars, dbVars>>

\* Lines 163-172: the branch on is_call assigns price, delta, rho, theta.
Line163(t) ==
  /\ pc[t] = "L163"
  /\ LET f == Locals(frame, t)
     IN  IF BranchRaises(f.T, f.r) # "none"
           THEN Leave(t, Raised(BranchRaises(f.T, f.r))) /\ UNCHANGED frame
           ELSE LET b == Branch(f.S, f.K, f.T, f.r, f.sigma, f.d1, f.d2, f.is_call)
                IN  /\ frame' = [frame EXCEPT ![t].price = b.price,
                                              ![t].delta = b.delta,
                                              ![t].rho = b.rho,
                                              ![t].theta = b.theta]
                    /\ pc' = [pc EXCEPT ![t] = "L173"]
                    /\ UNCHANGED ret
  /\ UNCHANGED <<pricerVars, dbVars>>

\* Line 173: gamma.
Line173(t) ==
  /\ pc[t] = "L173"
  /\ LET f == Locals(frame, t)
     IN  IF GammaRaises(f.S, f.T, f.sigma) # "none"
           THEN Leave(t, Raised(GammaRaises(f.S, f.T, f.sigma))) /\ UNCHANGED frame
           ELSE /\ frame' = [frame EXCEPT ![t].gamma = Gamma(f.S, f.T, f.sigma, f.d1)]
                /\ pc' = [pc EXCEPT ![t] = "L174"]
                /\ UNCHANGED ret
  /\ UNCHANGED <<pricerVars, dbVars>>

\* Line 174: vega.
Line174(t) ==
  /\ pc[t] = "L174"
  /\ LET f == Locals(frame, t)
     IN  frame' = [frame EXCEPT ![t].vega = Vega(f.S, f.T, f.sigma, f.d1)]
  /\ pc' = [pc EXCEPT ![t] = "L175"]
  /\ UNCHANGED <<ret, pricerVars, dbVars>>

\* Line 175: return the six values.
Line175(t) ==
  /\ pc[t] = "L175"
  /\ LET f == Locals(frame, t)
     IN  Leave(t, [status |-> "returned", price |-> f.price, delta |-> f.delta,
                   gamma |-> f.gamma, vega |-> f.vega, theta |-> f.theta,
                   rho |-> f.rho])
  /\ UNCHANGED <<frame, pricerVars, dbVars>>

\* The caller takes the result; the thread is free for the next call.
Collect(t) ==
  /\ pc[t] = "done"
  /\ pc' = [pc EXCEPT ![t] = "idle"]
  /\ UNCHANGED <<frame, ret, pricerVars, dbVars>>

\* The inputs of the sequential pricer play no part in the concurrent runs.
ThreadsInit ==
  /\ args = [S |-> 0, K |-> 0, T |-> 0, r |-> 0, sigma |-> 0]
  /\ out = [c \in BOOLEAN |-> Pending]
  /\ resp = [served |-> FALSE]
  /\ ThreadsIdle
  /\ DbIdle

ThreadsNext ==
  \E t \in Threads :
    \/ \E a \in ThreadArgs, is_call \in BOOLEAN : Enter(t, a, is_call)
    \/ Line159(t)
    \/ Line161(t)
    \/ Line162(t)
    \/ Line163(t)
    \/ Line173(t)
    \/ Line174(t)
    \/ Line175(t)
    \/ Collect(t)

SpecThreads == ThreadsInit /\ [][ThreadsNext]_vars

\* ------------------------------------------------------------------------
\* src/main.py: the IPO API over an optional database
\* ------------------------------------------------------------------------

\* The symbols of the three seed documents, in the order of the seed list.
SeedSymbols == <<"ALPHATECH", "GREENFD", "NIMBUS">>

\* def _fallback_list(): the one static sample item.
_fallback_list == << [symbol |-> "SAMPLE"] >>

\* def _serialize(doc): a falsy document as it is, else a copy without _id.
_serialize(doc) ==
  IF DOMAIN doc = {} THEN doc ELSE [k \in (DOMAIN doc) \ {"_id"} |-> doc[k]]

\* str.lower() on the symbols the requests and the documents use.
LowerSymbol(sym) ==
  CASE sym = "SAMPLE"    -> "sample"
    [] sym = "Sample"    -> "sample"
    [] sym = "ALPHATECH" -> "alphatech"
    [] sym = "GREENFD"   -> "greenfd"
    [] sym = "NIMBUS"    -> "nimbus"
    [] sym = "Nimbus"    -> "nimbus"
    [] sym = "OTHER"     -> "other"
    [] OTHER             -> sym

\* create_document("ipo", s): stores s under a fresh _id, or raises; a write
\* that raises may or may not have stored the document.
create_document(coll, sym, fails, stored) ==
  [ipo    |-> IF fails /\ ~stored
                THEN coll
                ELSE Append(coll, [_id |-> Len(coll) + 1, symbol |-> sym]),
   raised |-> fails]

\* get_documents("ipo"): the documents of the collection, or raises.
get_documents(coll, fails) ==
  IF fails THEN [raised |-> TRUE, docs |-> <<>>]
           ELSE [raised |-> FALSE, docs |-> coll]

\* for s in seed: try: create_document("ipo", s) except Exception: return
\* from seed number i on; failAt is the number of the write that raises
\* (0: none does).
RECURSIVE SeedLoop(_, _, _, _)
SeedLoop(coll, i, failAt, stored) ==
  IF i > Len(SeedSymbols)
    THEN [ipo |-> coll, outcome |-> "returned"]
    ELSE LET w == create_document(coll, SeedSymbols[i], i = failAt, stored)
         IN  IF w.raised
               THEN [ipo |-> w.ipo, outcome |-> "returned"]
               ELSE SeedLoop(w.ipo, i + 1, failAt, stored)

\* Mutant of _ensure_seed_data: the `if count > 0: return` is missing.
EnsureSeedDataNoCountCheck(dbc, coll, f) ==
  IF ~dbc
    THEN [ipo |-> coll, outcome |-> "returned"]
    ELSE IF f.count
           THEN [ipo |-> coll, outcome |-> "returned"]
           ELSE SeedLoop(coll, 1, f.write, f.stored)

\* def _ensure_seed_data(), with the faults f of this run:
\* f.count: count_documents raises; f.write, f.stored: see SeedLoop.
_ensure_seed_data(dbc, coll, f) ==
  IF ~dbc
    THEN [ipo |-> coll, outcome |-> "returned"]
    ELSE IF f.count
           THEN [ipo |-> coll, outcome |-> "returned"]
           ELSE IF Len(coll) > 0
                  THEN [ipo |-> coll, outcome |-> "returned"]
                  ELSE SeedLoop(coll, 1, f.write, f.stored)

\* Mutant of ListResult: the `if not docs` fallback is missing.
ListResultNoFallback(docs) == [i \in 1..Len(docs) |-> _serialize(docs[i])]

\* list_ipos, lines 170-172: the fallback for no documents, else the
\* documents serialized.
ListResult(docs) ==
  IF docs = <<>>
    THEN _fallback_list
    ELSE [i \in 1..Len(docs) |-> _serialize(docs[i])]

\* async def list_ipos(): the collection after the call, how seeding and
\* reading ended, and the response.
list_ipos(dbc, coll, f) ==
  IF ~dbc
    THEN [ipo |-> coll, seeded |-> "not run", fetched |-> "not run",
          resp |-> [status |-> "200", items |-> _fallback_list]]
    ELSE LET sd == _ensure_seed_data(dbc, coll, f)
             rd == get_documents(sd.ipo, f.read)
         IN  IF sd.outcome = "raised"
               THEN [ipo |-> sd.ipo, seeded |-> "raised", fetched |-> "not run",
                     resp |-> [status |-> "200", items |-> _fallback_list]]
               ELSE IF rd.raised
                 THEN [ipo |-> sd.ipo, seeded |-> sd.outcome, fetched |-> "raised",
                       resp |-> [status |-> "200", items |-> _fallback_list]]
                 ELSE [ipo |-> sd.ipo, seeded |-> sd.outcome, fetched |-> "returned",
                       resp |-> [status |-> "200", items |-> ListResult(rd.docs)]]

\* The fallback branch of get_ipo: the sample item when its symbol matches
\* without regard to case, else HTTP 404.
FallbackLookup(symbol) ==
  IF \E i \in 1..Len(_fallback_list) :
       LowerSymbol(_fallback_list[i].symbol) = LowerSymbol(symbol)
    THEN [status |-> "200",
          body |-> _fallback_list[
                     CHOOSE i \in 1..Len(_fallback_list) :
                       /\ LowerSymbol(_fallback_list[i].symbol) = LowerSymbol(symbol)
                       /\ \A j \in 1..(i - 1) :
                            LowerSymbol(_fallback_list[j].symbol) # LowerSymbol(symbol)]]
    ELSE [status |-> "404"]

\* The positions of the documents find_one matches: by exact symbol, or by
\* the case-insensitive regex ^symbol$.
Matches(coll, symbol, ignoreCase) ==
  { i \in 1..Len(coll) :
      IF ignoreCase THEN LowerSymbol(coll[i].symbol) = LowerSymbol(symbol)
                    ELSE coll[i].symbol = symbol }

\* The first document of a non-empty set of positions.
First(coll, pos) == coll[CHOOSE i \in pos : \A j \in pos : i <= j]

\* async def get_ipo(symbol); failAt is the number of the find_one that
\* raises (0: none does).
get_ipo(dbc, coll, symbol, failAt) ==
  IF ~dbc
    THEN FallbackLookup(symbol)
    ELSE IF failAt = 1
      THEN FallbackLookup(symbol)
      ELSE IF Matches(coll, symbol, FALSE) # {}
        THEN [status |-> "200",
              body |-> _serialize(First(coll, Matches(coll, symbol, FALSE)))]
        ELSE IF failAt = 2
          THEN FallbackLookup(symbol)
          ELSE IF Matches(coll, symbol, TRUE) # {}
            THEN [status |-> "200",
                  body |-> _serialize(First(coll, Matches(coll, symbol, TRUE)))]
            ELSE FallbackLookup(symbol)

\* The faults of one request: count_documents raises, the number of the
\* create_document that raises and whether it stored its document, and
\* get_documents raises.
Faults == [count : BOOLEAN, write : 0..Len(SeedSymbols), stored : BOOLEAN,
           read : BOOLEAN]

\* What the collection may hold when the service starts: nothing, a document
\* of another producer, or a document that carries a seed symbol.
StartContents ==
  { <<>>, << [_id |-> 1, symbol |-> "OTHER"] >>,
    << [_id |-> 1, symbol |-> "NIMBUS"] >> }

\* The symbols asked of GET /api/ipos/{symbol}.
AskedSymbols == {"SAMPLE", "Sample", "NIMBUS", "Nimbus", "GREENFD", "ZZZ"}

DbInit ==
  /\ db \in BOOLEAN
  /\ ipo \in (IF db THEN StartContents ELSE {<<>>})
  /\ seeded = "not run"
  /\ fetched = "not run"
  /\ listed = [status |-> "none"]
  /\ got = [status |-> "none"]
  /\ args = [S |-> 0, K |-> 0, T |-> 0, r |-> 0, sigma |-> 0]
  /\ out = [c \in BOOLEAN |-> Pending]
  /\ resp = [served |-> FALSE]
  /\ ThreadsIdle

\* GET /api/ipos. The handler is a coroutine that never awaits, so the
\* requests of one server run one after the other.
GetIpos(f) ==
  LET r == list_ipos(db, ipo, f)
  IN  /\ ipo' = r.ipo
      /\ seeded' = r.seeded
      /\ fetched' = r.fetched
      /\ listed' = r.resp
      /\ UNCHANGED <<db, got, pricerVars, threadVars>>

\* GET /api/ipos/{symbol}.
GetIpo(symbol, failAt) ==
  /\ got' = [status |-> "answered", symbol |-> symbol,
             response |-> get_ipo(db, ipo, symbol, failAt)]
  /\ UNCHANGED <<db, ipo, seeded, fetched, listed, pricerVars, threadVars>>

DbNext ==
  \/ \E f \in Faults : GetIpos(f)
  \/ \E symbol \in AskedSymbols, failAt \in 0..2 : GetIpo(symbol, failAt)

SpecDb == DbInit /\ [][DbNext]_vars

\* ------------------------------------------------------------------------
\* Properties of the pricer (checked under Spec)
\* ------------------------------------------------------------------------

\* The degenerate-input condition of the specification.
DegenerateArgs == args.T <= 0 \/ args.sigma <= 0 \/ args.S <= 0 \/ args.K <= 0

\* Both direct calls have been made.
BothPriced == out[TRUE] # Pending /\ out[FALSE] # Pending

\* Both direct calls have returned a result.
BothReturned ==
  BothPriced /\ out[TRUE].status = "returned" /\ out[FALSE].status = "returned"

\* C1: whenever T <= 0, sigma <= 0, S <= 0 or K <= 0, a call of
\* _black_scholes returns, and price, delta, gamma, vega, theta and rho are
\* all 0.0, for is_call true and false and whatever r is.
C1_DegenerateAllZero ==
  \A c \in BOOLEAN :
    (out[c] # Pending /\ DegenerateArgs) =>
      /\ out[c].status = "returned"
      /\ out[c].price = 0 /\ out[c].delta = 0 /\ out[c].gamma = 0
      /\ out[c].vega = 0  /\ out[c].theta = 0 /\ out[c].rho = 0

\* C1 witness: T = 0 with S, K and sigma valid and a rate that would overflow
\* the discount factor for any T > 0, priced as a call and as a put.
C1_Witness ==
  /\ BothPriced
  /\ args.T = 0 /\ args.S > 0 /\ args.K > 0 /\ args.sigma > 0
  /\ args.r < -(1000 * Scale)

\* C2: _black_scholes never raises: every call made has returned a result.
C2_NeverRaises ==
  \A c \in BOOLEAN : out[c] # Pending => out[c].status = "returned"

\* The type strings whose lower-cased form is "call".
CallSpellings ==
  { <<"c", "a", "l", "l">>, <<"C", "A", "L", "L">>, <<"C", "a", "l", "l">> }

\* C3: the endpoint answers a type string that lower-cases to "call" with
\* what _black_scholes gives for is_call = true, and every other type string
\* ("put", "PUT", unrecognised, empty) with what it gives for is_call = false.
C3_BinaryDispatch ==
  (resp.served /\ BothPriced) =>
      resp.body = (IF resp.type \in CallSpellings THEN out[TRUE] ELSE out[FALSE])

\* C3 witness: "CALL" was answered on inputs for which the call and the put
\* results differ.
C3_Witness ==
  /\ resp.served /\ resp.type = <<"C", "A", "L", "L">>
  /\ BothReturned /\ out[TRUE] # out[FALSE]

\* Tolerance of the parity check: one resolution step of the number model per
\* unit of S + K.
ParityTol == (args.S + args.K) \div Scale

\* The call price minus the put price is S - K * exp(-r * T), within the
\* tolerance.
ParityHolds ==
  Abs((out[TRUE].price - out[FALSE].price)
        - (args.S - Mul(args.K, Exp(Mul(-args.r, args.T))))) <= ParityTol

\* C4: put-call parity. On every non-degenerate input, any r, the two calls
\* return prices, and the call price minus the put price equals
\* S - K * exp(-r * T) within the tolerance.
C4_PutCallParity ==
  (BothPriced /\ ~DegenerateArgs) => (BothReturned /\ ParityHolds)

\* C4, on the inputs for which both calls return: parity holds.
C4_ParityWhenReturned == (BothReturned /\ ~DegenerateArgs) => ParityHolds

\* A non-degenerate input with a negative rate, priced both ways, both calls
\* returning.
C4_ReturnedCase == BothReturned /\ ~DegenerateArgs /\ args.r < 0 /\ args.S < args.K

\* The call delta minus the put delta is 1.0, within two resolution steps.
DeltaDifferenceHolds == Abs((out[TRUE].delta - out[FALSE].delta) - Scale) <= 2

\* C5: on every non-degenerate input the two calls return deltas, and the
\* call delta minus the put delta is 1.0 within tolerance.
C5_DeltaDifference ==
  (BothPriced /\ ~DegenerateArgs) => (BothReturned /\ DeltaDifferenceHolds)

\* C5, on the inputs for which both calls return: the deltas differ by 1.0.
C5_DeltaDifferenceWhenReturned ==
  (BothReturned /\ ~DegenerateArgs) => DeltaDifferenceHolds

\* A non-degenerate input priced both ways, with a call delta strictly
\* between 0 and 1 and a negative put delta.
C5_ReturnedCase ==
  /\ BothReturned /\ ~DegenerateArgs
  /\ out[TRUE].delta > 0 /\ out[TRUE].delta < Scale /\ out[FALSE].delta < 0

\* C6: gamma and vega do not depend on is_call: the two calls end the same
\* way, and when they return they give the same gamma and the same vega.
C6_GammaVegaTypeIndependent ==
  BothPriced =>
      /\ out[TRUE].status = out[FALSE].status
      /\ out[TRUE].status = "returned" =>
           /\ out[TRUE].gamma = out[FALSE].gamma
           /\ out[TRUE].vega = out[FALSE].vega

\* C6 witness: both calls returned a positive gamma and vega while their
\* prices differ.
C6_Witness ==
  /\ BothReturned /\ out[TRUE].gamma > 0 /\ out[TRUE].vega > 0
  /\ out[TRUE].price # out[FALSE].price

\* The formulas of the specification (section 4.1), written from its text.
BSM_d1 ==
  Div(Ln(Div(args.S, args.K))
        + Mul(args.r + Mul(Scale \div 2, Mul(args.sigma, args.sigma)), args.T),
      Mul(args.sigma, Sqrt(args.T)))

BSM_d2 == BSM_d1 - Mul(args.sigma, Sqrt(args.T))

BSM_disc == Exp(Mul(-args.r, args.T))

\* -(S phi(d1) sigma) / (2 sqrt(T)), the per-year time decay shared by both.
BSM_decay ==
  Div(-Mul(Mul(args.S, NormPdf(BSM_d1)), args.sigma),
      Mul(2 * Scale, Sqrt(args.T)))

\* Per-unit rho of a call: K T e^(-rT) N(d2).
BSM_rhoCall == Mul(Mul(Mul(args.K, args.T), BSM_disc), NormCdf(BSM_d2))

\* Per-unit rho of a put: -K T e^(-rT) N(-d2).
BSM_rhoPut == Mul(Mul(Mul(-args.K, args.T), BSM_disc), NormCdf(-BSM_d2))

\* Per-year theta of a call.
BSM_thetaCall ==
  BSM_decay - Mul(Mul(Mul(args.r, args.K), BSM_disc), NormCdf(BSM_d2))

\* Per-year theta of a put.
BSM_thetaPut ==
  BSM_decay + Mul(Mul(Mul(args.r, args.K), BSM_disc), NormCdf(-BSM_d2))

\* Per-unit vega: S phi(d1) sqrt(T).
BSM_vega == Mul(Mul(args.S, NormPdf(BSM_d1)), Sqrt(args.T))

BSM_gamma ==
  Div(NormPdf(BSM_d1), Mul(Mul(args.S, args.sigma), Sqrt(args.T)))

\* The values of the call, as the specification gives them.
BSM_call ==
  [status |-> "returned",
   price  |-> Mul(args.S, NormCdf(BSM_d1))
                - Mul(Mul(args.K, BSM_disc), NormCdf(BSM_d2)),
   delta  |-> NormCdf(BSM_d1),
   gamma  |-> BSM_gamma,
   vega   |-> Div(BSM_vega, 100 * Scale),
   theta  |-> Div(BSM_thetaCall, 365 * Scale),
   rho    |-> Div(BSM_rhoCall, 100 * Scale)]

\* The values of the put, as the specification gives them.
BSM_put ==
  [status |-> "returned",
   price  |-> Mul(Mul(args.K, BSM_disc), NormCdf(-BSM_d2))
                - Mul(args.S, NormCdf(-BSM_d1)),
   delta  |-> -NormCdf(-BSM_d1),
   gamma  |-> BSM_gamma,
   vega   |-> Div(BSM_vega, 100 * Scale),
   theta  |-> Div(BSM_thetaPut, 365 * Scale),
   rho    |-> Div(BSM_rhoPut, 100 * Scale)]

\* C8: on every non-degenerate input _black_scholes returns the Black-
\* Scholes-Merton values: price, delta and gamma unscaled, rho and vega
\* divided by 100, theta divided by 365; the call uses N(d1), N(d2), the put
\* N(-d1), N(-d2) with the sign of rho and of the r K e^(-rT) term of theta
\* flipped.
C8_ScaledFormulas ==
  \A c \in BOOLEAN :
    (out[c] # Pending /\ ~DegenerateArgs) =>
      /\ out[c].status = "returned"
      /\ out[c] = (IF c THEN BSM_call ELSE BSM_put)

\* C8, on the inputs for which the call returns: the result holds the scaled
\* Black-Scholes-Merton values.
C8_ScaledFormulasWhenReturned ==
  \A c \in BOOLEAN :
    (out[c] # Pending /\ out[c].status = "returned" /\ ~DegenerateArgs) =>
      out[c] = (IF c THEN BSM_call ELSE BSM_put)

\* A non-degenerate input with a positive rate, priced both ways, whose call
\* rho is positive and whose put rho is negative.
C8_ReturnedCase ==
  /\ BothReturned /\ ~DegenerateArgs /\ args.r > 0
  /\ out[TRUE].rho > 0 /\ out[FALSE].rho < 0 /\ out[TRUE].theta < 0

\* ------------------------------------------------------------------------
\* Properties of concurrent calls (checked under SpecThreads)
\* ------------------------------------------------------------------------

\* C7: the pricer is stateless and deterministic: in every interleaving of
\* calls, and whatever calls a thread made before, the result a call leaves
\* with is the function of its own six arguments, and a thread that is not
\* in a call has no effect on it.
C7_ResultOfOwnArguments ==
  \A t \in Threads :
    pc[t] = "done" =>
      ret[t] = _black_scholes(frame[t].S, frame[t].K, frame[t].T, frame[t].r,
                              frame[t].sigma, frame[t].is_call)

\* C7 witness: both threads have finished calls on different inputs and
\* different flags, each with a returned result.
C7_Witness ==
  /\ pc[1] = "done" /\ pc[2] = "done"
  /\ ret[1].status = "returned" /\ ret[2].status = "returned"
  /\ frame[1].S # frame[2].S /\ frame[1].is_call # frame[2].is_call
  /\ ret[1].price > 0 /\ ret[2].price > 0

\* ------------------------------------------------------------------------
\* Properties of the IPO API (checked under SpecDb)
\* ------------------------------------------------------------------------

\* C9: GET /api/ipos never raises and never returns an empty list: it answers
\* with the stored documents, _id removed, when a database is configured and
\* the read succeeded with at least one document, and with the one-item
\* static fallback list in every other case (no database, a failed read, no
\* documents).
C9_ListNeverEmpty ==
  listed.status # "none" =>
    /\ listed.status = "200"
    /\ Len(listed.items) >= 1
    /\ IF db /\ fetched = "returned" /\ ipo # <<>>
         THEN /\ Len(listed.items) = Len(ipo)
              /\ \A i \in 1..Len(ipo) :
                   listed.items[i] = [symbol |-> ipo[i].symbol]
         ELSE listed.items = << [symbol |-> "SAMPLE"] >>

\* C9 witness: with a database configured, seeding stored nothing and the
\* read succeeded with no documents; the fallback list was returned.
C9_Witness ==
  /\ db /\ ipo = <<>> /\ seeded = "returned" /\ fetched = "returned"
  /\ listed.status = "200" /\ listed.items = << [symbol |-> "SAMPLE"] >>

\* C10: seeding writes only into an empty collection: a request changes the
\* collection only when it found it empty; each seed symbol is stored at most
\* once; and _ensure_seed_data never ends with an exception.
C10_SeedOnlyIntoEmpty ==
  /\ [][ipo' # ipo => ipo = <<>>]_vars
  /\ [](/\ seeded # "raised"
        /\ \A k \in 1..Len(SeedSymbols) :
             Cardinality({i \in 1..Len(ipo) : ipo[i].symbol = SeedSymbols[k]}) <= 1)

\* C10 witness: a seeding run stopped at its third write, leaving the first
\* two seed documents, and a later request was answered from them.
C10_Witness ==
  /\ db /\ seeded = "returned" /\ Len(ipo) = 2
  /\ ipo[1].symbol = "ALPHATECH" /\ ipo[2].symbol = "GREENFD"
  /\ got.status = "answered" /\ got.symbol = "GREENFD"
  /\ got.response.status = "200"

====
